---- MODULE Spec2Model ----
(***************************************************************************)
(* Model of the tts-server hub: the connection registry (hub.clients), the *)
(* hub goroutine (Hub.run), one goroutine per listener (listenHandler) and *)
(* one per send request (sendHandler), with addMessage as the persistence  *)
(* append.  The three hub channels are unbuffered: a send on one of them   *)
(* completes in the same step as the hub's receive.                        *)
(***************************************************************************)
EXTENDS Naturals, Sequences, FiniteSets

\* Bounds of the model.
NConns == 2
NSenders == 2

Conns == 1..NConns
Senders == 1..NSenders
None == 0

\* client.SetWriteDeadline(time.Now().Add(10 * time.Second)), in seconds
WriteDeadlineSecs == 10

\* time.NewTicker(30 * time.Second), in seconds
TickerSecs == 30

\* The time a WriteMessage of the hub takes: none, or all its deadline allows.
WriteDurations == {0, WriteDeadlineSecs}

\* The request bodies a sender may post: one that does not bind to a Message,
\* one whose message text is empty, one with text.
Malformed == "malformed"
Requests == {Malformed, "", "hi"}

VARIABLES
  pc,           \* listenHandler goroutine of each connection: where it is
  open,         \* the transport of each connection is open (not yet Close()d)
  tick,         \* a tick is waiting in ticker.C of each connection's handler
  lag,          \* seconds each handler has spent blocked on hub.unregister
  clients,      \* hub.clients
  hubOp,        \* the case of the select Hub.run is executing, or "idle"
  hubArg,       \* client received from hub.register / hub.unregister
  hubMsg,       \* message received from hub.broadcast (named by its sender)
  todo,         \* clients the range loop of the broadcast has yet to visit
  hubWriting,   \* client whose WriteMessage is in progress
  mutexHeld,    \* hub.mutex is locked
  recv,         \* messages each connection's peer has received, in order
  spc,          \* sendHandler goroutine of each request: where it is
  req,          \* the request body of each sender
  resp,         \* HTTP status each send request was answered with (0: none yet)
  appendCalls,  \* calls of addMessage made for the message being broadcast
  rows,         \* rows in the messages table
  dbUp,         \* the database answers (once it is down, it returns errors)
  logged,       \* kinds of error the server has written to its log
  qresp,        \* HTTP status GET /messages was answered with (0: none yet)
  accepted,     \* messages in the order Hub.run received them
  snapshot,     \* hub.clients when the message being broadcast was received
  failed,       \* clients whose write of the message being broadcast failed
  writeFailed,  \* clients removed by a failed fan-out write, of any message
  registered,   \* clients whose register the hub has processed
  unregistered, \* clients whose unregister the hub has processed
  unregNoop     \* clients whose unregister found them absent

vars == <<pc, open, tick, lag, clients, hubOp, hubArg, hubMsg, todo, hubWriting,
          mutexHeld, recv, spc, req, resp, appendCalls, rows, dbUp, logged,
          qresp, accepted,
          snapshot, failed, writeFailed, registered, unregistered, unregNoop>>

hubVars == <<clients, hubOp, hubArg, hubMsg, todo, hubWriting, mutexHeld>>
connVars == <<pc, open, tick, lag>>
sendVars == <<spc, req, resp>>
dbVars == <<appendCalls, rows, dbUp>>
bcastVars == <<accepted, snapshot, failed, writeFailed>>
regVars == <<registered, unregistered, unregNoop>>
histVars == <<bcastVars, regVars>>
outVars == <<logged, qresp>>

Range(s) == {s[i] : i \in 1..Len(s)}

Init ==
  /\ pc = [c \in Conns |-> "idle"]
  /\ open = [c \in Conns |-> FALSE]
  /\ tick = [c \in Conns |-> FALSE]
  /\ lag = [c \in Conns |-> 0]
  /\ clients = {}
  /\ hubOp = "idle"
  /\ hubArg = None
  /\ hubMsg = None
  /\ todo = {}
  /\ hubWriting = None
  /\ mutexHeld = FALSE
  /\ recv = [c \in Conns |-> <<>>]
  /\ spc = [s \in Senders |-> "idle"]
  /\ req = [s \in Senders |-> Malformed]
  /\ resp = [s \in Senders |-> 0]
  /\ appendCalls = 0
  /\ rows = 0
  /\ dbUp = TRUE
  /\ logged = {}
  /\ qresp = 0
  /\ accepted = <<>>
  /\ snapshot = {}
  /\ failed = {}
  /\ writeFailed = {}
  /\ registered = {}
  /\ unregistered = {}
  /\ unregNoop = {}

----
\* Hub.run

\* The hub is at its select only when the body of the previous case is over.
HubReadyAlways == TRUE
HubReadyNever == FALSE
HubReady == hubOp = "idle"

\* hub.clients[client] = true
RegisterLost(cl, c) == cl
RegisterApply(cl, c) == cl \cup {c}

\* if _, ok := hub.clients[client]; ok { delete(hub.clients, client) ... }
UnregisterKeeps(cl, c) == cl
UnregisterApply(cl, c) == IF c \in cl THEN cl \ {c} ELSE cl

\* client.Close() of the unregister case: only for a client that is present
UnregisterNeverCloses(cl, c) == FALSE
UnregisterCloses(cl, c) == c \in cl

\* delete(hub.clients, client) after a failed WriteMessage
WriteFailKeeps(cl, c) == cl
WriteFailDropsAll(cl, c) == {}
WriteFailApply(cl, c) == cl \ {c}

\* The range loop goes on with the other clients whether the write failed or not.
RangeAbortOnError(td, c, ok) == IF ok THEN td \ {c} ELSE {}
RangeRest(td, c, ok) == td \ {c}

\* case client := <-hub.register (the handler's send completes here)
HubRecvRegister(c) ==
  /\ HubReady
  /\ pc[c] = "reg"
  /\ hubOp' = "register"
  /\ hubArg' = c
  /\ pc' = [pc EXCEPT ![c] = "loop"]
  /\ UNCHANGED <<open, tick, lag, clients, hubMsg, todo, hubWriting, mutexHeld, recv>>
  /\ UNCHANGED <<sendVars, dbVars, histVars>>
  /\ UNCHANGED outVars

\* Lock; hub.clients[client] = true; Unlock
HubDoRegister ==
  /\ hubOp = "register"
  /\ ~mutexHeld
  /\ clients' = RegisterApply(clients, hubArg)
  /\ registered' = registered \cup {hubArg}
  /\ hubOp' = "idle"
  /\ hubArg' = None
  /\ UNCHANGED <<hubMsg, todo, hubWriting, mutexHeld, recv>>
  /\ UNCHANGED <<connVars, sendVars, dbVars, bcastVars>>
  /\ UNCHANGED <<unregistered, unregNoop>>
  /\ UNCHANGED outVars

\* case client := <-hub.unregister (the deferred send of the handler completes)
HubRecvUnregister(c) ==
  /\ HubReady
  /\ pc[c] = "unreg"
  /\ hubOp' = "unregister"
  /\ hubArg' = c
  /\ pc' = [pc EXCEPT ![c] = "closing"]
  /\ lag' = [lag EXCEPT ![c] = 0]
  /\ UNCHANGED <<open, tick, clients, hubMsg, todo, hubWriting, mutexHeld, recv>>
  /\ UNCHANGED <<sendVars, dbVars, histVars>>
  /\ UNCHANGED outVars

\* Lock; if present { delete; client.Close() }; Unlock
HubDoUnregister ==
  /\ hubOp = "unregister"
  /\ ~mutexHeld
  /\ clients' = UnregisterApply(clients, hubArg)
  /\ open' = IF UnregisterCloses(clients, hubArg)
               THEN [open EXCEPT ![hubArg] = FALSE] ELSE open
  /\ unregistered' = unregistered \cup {hubArg}
  /\ unregNoop' = IF hubArg \in clients THEN unregNoop ELSE unregNoop \cup {hubArg}
  /\ hubOp' = "idle"
  /\ hubArg' = None
  /\ UNCHANGED <<pc, tick, lag, hubMsg, todo, hubWriting, mutexHeld, recv>>
  /\ UNCHANGED <<sendVars, dbVars, bcastVars>>
  /\ UNCHANGED registered
  /\ UNCHANGED outVars

\* case message := <-hub.broadcast; Lock; json.Marshal (cannot fail for a
\* Message bound from JSON); the range loop starts over hub.clients
HubRecvBroadcast(s) ==
  /\ HubReady
  /\ spc[s] = "blocked"
  /\ hubOp' = "broadcast"
  /\ hubMsg' = s
  /\ mutexHeld' = TRUE
  /\ todo' = clients
  /\ spc' = [spc EXCEPT ![s] = "respond"]
  /\ accepted' = Append(accepted, s)
  /\ snapshot' = clients
  /\ UNCHANGED <<clients, hubArg, hubWriting, recv, req, resp>>
  /\ UNCHANGED <<connVars, dbVars, regVars>>
  /\ UNCHANGED <<failed, writeFailed>>
  /\ UNCHANGED outVars

\* for client := range hub.clients: SetWriteDeadline; WriteMessage begins
HubWriteStart(c) ==
  /\ hubOp = "broadcast"
  /\ hubWriting = None
  /\ c \in todo
  /\ hubWriting' = c
  /\ UNCHANGED <<clients, hubOp, hubArg, hubMsg, todo, mutexHeld, recv>>
  /\ UNCHANGED <<connVars, sendVars, dbVars, histVars>>
  /\ UNCHANGED outVars

\* addMessage is called in every iteration of the range loop, after the write,
\* whether the write failed or not.
AppendOnSuccessOnly(n, ok) == IF ok THEN n + 1 ELSE n
AppendCount(n, ok) == n + 1

\* While a write of the hub takes d seconds, the handlers blocked on
\* hub.unregister wait d seconds more.
Waited(lg, d) == [c \in Conns |-> IF pc[c] = "unreg" THEN lg[c] + d ELSE lg[c]]

\* WriteMessage returns (ok, or error: then log, Close and delete), then
\* addMessage is called and the error it returns is dropped, unlogged; the
\* insert succeeds while the database is up.
HubWriteEnd(ok) ==
  /\ hubOp = "broadcast"
  /\ hubWriting # None
  /\ ok => open[hubWriting]
  /\ IF ok
       THEN /\ recv' = [recv EXCEPT ![hubWriting] = Append(@, hubMsg)]
            /\ UNCHANGED <<open, clients, failed, writeFailed, logged>>
       ELSE /\ open' = [open EXCEPT ![hubWriting] = FALSE]
            /\ clients' = WriteFailApply(clients, hubWriting)
            /\ failed' = failed \cup {hubWriting}
            /\ writeFailed' = writeFailed \cup {hubWriting}
            /\ logged' = logged \cup {"write"}
            /\ UNCHANGED recv
  /\ appendCalls' = AppendCount(appendCalls, ok)
  /\ rows' = IF dbUp THEN rows + (appendCalls' - appendCalls) ELSE rows
  /\ UNCHANGED dbUp
  /\ todo' = RangeRest(todo, hubWriting, ok)
  /\ hubWriting' = None
  /\ \E d \in WriteDurations : lag' = Waited(lag, d)
  /\ UNCHANGED <<pc, tick, hubOp, hubArg, hubMsg, mutexHeld>>
  /\ UNCHANGED <<sendVars, accepted, snapshot, regVars, qresp>>

\* The range loop is over: Unlock, back to the select
HubBroadcastEnd ==
  /\ hubOp = "broadcast"
  /\ hubWriting = None
  /\ todo = {}
  /\ hubOp' = "idle"
  /\ hubMsg' = None
  /\ mutexHeld' = FALSE
  /\ snapshot' = {}
  /\ failed' = {}
  /\ appendCalls' = 0
  /\ UNCHANGED <<clients, hubArg, todo, hubWriting, recv>>
  /\ UNCHANGED <<connVars, sendVars, rows, dbUp, regVars>>
  /\ UNCHANGED <<accepted, writeFailed>>
  /\ UNCHANGED outVars

----
\* listenHandler

\* upgrader.Upgrade: on error the request is answered 500 and no connection exists.
\* Handlers start in index order (the connections are interchangeable).
Upgrade(c, ok) ==
  /\ pc[c] = "idle"
  /\ IF c = 1 THEN TRUE ELSE pc[c - 1] # "idle"
  /\ IF ok
       THEN /\ pc' = [pc EXCEPT ![c] = "reg"]
            /\ open' = [open EXCEPT ![c] = TRUE]
       ELSE /\ pc' = [pc EXCEPT ![c] = "rejected"]
            /\ UNCHANGED open
  /\ UNCHANGED <<tick, lag, recv>>
  /\ UNCHANGED <<hubVars, sendVars, dbVars, histVars>>
  /\ UNCHANGED outVars

\* The ticker of a running handler fires; ticker.C holds at most one tick.
\* (A tick that fires during WriteControl is seen at the next select, as one
\* that fires right after it.)
Tick(c) ==
  /\ pc[c] \in {"loop", "reading"}
  /\ ~tick[c]
  /\ tick' = [tick EXCEPT ![c] = TRUE]
  /\ UNCHANGED <<pc, open, lag, recv>>
  /\ UNCHANGED <<hubVars, sendVars, dbVars, histVars>>
  /\ UNCHANGED outVars

\* select { case <-ticker.C: WriteControl(Ping...) begins; default: ReadMessage begins }
LoopSelect(c) ==
  /\ pc[c] = "loop"
  /\ IF tick[c]
       THEN /\ pc' = [pc EXCEPT ![c] = "pinging"]
            /\ tick' = [tick EXCEPT ![c] = FALSE]
       ELSE /\ pc' = [pc EXCEPT ![c] = "reading"]
            /\ UNCHANGED tick
  /\ UNCHANGED <<open, lag, recv>>
  /\ UNCHANGED <<hubVars, sendVars, dbVars, histVars>>
  /\ UNCHANGED outVars

\* WriteControl returns: nil, or an error and the handler returns (ticker.Stop,
\* then the deferred unregister)
PingEnd(c, ok) ==
  /\ pc[c] = "pinging"
  /\ ok => open[c]
  /\ IF ok
       THEN /\ pc' = [pc EXCEPT ![c] = "loop"]
            /\ UNCHANGED tick
       ELSE /\ pc' = [pc EXCEPT ![c] = "unreg"]
            /\ tick' = [tick EXCEPT ![c] = FALSE]
  /\ UNCHANGED <<open, lag, recv>>
  /\ UNCHANGED <<hubVars, sendVars, dbVars, histVars>>
  /\ UNCHANGED outVars

\* ReadMessage returns a message of the peer: the loop goes round
ReadMsg(c) ==
  /\ pc[c] = "reading"
  /\ open[c]
  /\ pc' = [pc EXCEPT ![c] = "loop"]
  /\ UNCHANGED <<open, tick, lag, recv>>
  /\ UNCHANGED <<hubVars, sendVars, dbVars, histVars>>
  /\ UNCHANGED outVars

\* ReadMessage returns an error (peer closed, read deadline passed, transport
\* closed): the handler returns
ReadErr(c) ==
  /\ pc[c] = "reading"
  /\ pc' = [pc EXCEPT ![c] = "unreg"]
  /\ tick' = [tick EXCEPT ![c] = FALSE]
  /\ UNCHANGED <<open, lag, recv>>
  /\ UNCHANGED <<hubVars, sendVars, dbVars, histVars>>
  /\ UNCHANGED outVars

\* ws.Close() of the deferred function, after hub.unregister <- ws completed
HandlerClose(c) ==
  /\ pc[c] = "closing"
  /\ open' = [open EXCEPT ![c] = FALSE]
  /\ pc' = [pc EXCEPT ![c] = "done"]
  /\ UNCHANGED <<tick, lag, recv>>
  /\ UNCHANGED <<hubVars, sendVars, dbVars, histVars>>
  /\ UNCHANGED outVars

----
\* sendHandler

\* c.ShouldBindJSON fails on a body that is no Message
BindOK(r) == r # Malformed

\* if req.Message == "" { 400 }
AcceptsEmpty(r) == BindOK(r)
Valid(r) == BindOK(r) /\ r # ""

\* A request arrives: 400 when it does not bind or its message is empty,
\* otherwise the handler blocks on hub.broadcast <- req.
\* Requests arrive in index order (the senders are interchangeable).
Send(s, r) ==
  /\ spc[s] = "idle"
  /\ IF s = 1 THEN TRUE ELSE spc[s - 1] # "idle"
  /\ req' = [req EXCEPT ![s] = r]
  /\ IF Valid(r)
       THEN /\ spc' = [spc EXCEPT ![s] = "blocked"]
            /\ UNCHANGED resp
       ELSE /\ spc' = [spc EXCEPT ![s] = "done"]
            /\ resp' = [resp EXCEPT ![s] = 400]
  /\ UNCHANGED <<connVars, hubVars, recv, dbVars, histVars>>
  /\ UNCHANGED outVars

\* c.JSON(http.StatusOK, ...) after the send on hub.broadcast completed
SendRespond(s) ==
  /\ spc[s] = "respond"
  /\ spc' = [spc EXCEPT ![s] = "done"]
  /\ resp' = [resp EXCEPT ![s] = 200]
  /\ UNCHANGED <<req, connVars, hubVars, recv, dbVars, histVars>>
  /\ UNCHANGED outVars

----
\* The database stops answering: dbPool.Exec fails from now on.
DbFail ==
  /\ dbUp
  /\ dbUp' = FALSE
  /\ UNCHANGED <<appendCalls, rows, recv>>
  /\ UNCHANGED <<connVars, hubVars, sendVars, histVars>>
  /\ UNCHANGED outVars

----
HubStep ==
  \/ \E c \in Conns : HubRecvRegister(c)
  \/ HubDoRegister
  \/ \E c \in Conns : HubRecvUnregister(c)
  \/ HubDoUnregister
  \/ \E s \in Senders : HubRecvBroadcast(s)
  \/ \E c \in Conns : HubWriteStart(c)
  \/ \E ok \in BOOLEAN : HubWriteEnd(ok)
  \/ HubBroadcastEnd

HandlerStep(c) ==
  \/ LoopSelect(c)
  \/ \E ok \in BOOLEAN : PingEnd(c, ok)
  \/ HandlerClose(c)

Next ==
  \/ HubStep
  \/ \E c \in Conns : HandlerStep(c)
  \/ \E c \in Conns, ok \in BOOLEAN : Upgrade(c, ok)
  \/ \E c \in Conns : Tick(c)
  \/ \E c \in Conns : ReadMsg(c)
  \/ \E c \in Conns : ReadErr(c)
  \/ \E s \in Senders, r \in Requests : Send(s, r)
  \/ \E s \in Senders : SendRespond(s)
  \/ DbFail

Spec == Init /\ [][Next]_vars

----
\* GET /messages (behind basic auth; a request that fails it never gets here)

\* The status the handler answers with once getMessages has returned: always
\* http.StatusOK, getMessages has no error result.
QueryStatus(queryOK) == 200

\* The handler parses from and to (400 when either is not RFC 3339), calls
\* getMessages, which logs a failed query and returns an empty list, and
\* answers with the list.  One request is modelled.
MessagesQuery(fromOK, toOK) ==
  /\ qresp = 0
  /\ IF ~fromOK \/ ~toOK
       THEN /\ qresp' = 400
            /\ UNCHANGED logged
       ELSE /\ logged' = IF dbUp THEN logged ELSE logged \cup {"query"}
            /\ qresp' = QueryStatus(dbUp)
  /\ UNCHANGED <<connVars, hubVars, recv, sendVars, dbVars, histVars>>

\* The server with its messages endpoint in use.
QueryNext ==
  \/ Next
  \/ \E fromOK, toOK \in BOOLEAN : MessagesQuery(fromOK, toOK)

QuerySpec == Init /\ [][QueryNext]_vars

----
\* The goroutines are scheduled fairly, and every write carries a deadline, so
\* a step of the hub or of a handler that can be taken is taken.  What the peer
\* does (send, close, stay silent) carries no fairness.
FairSpec ==
  /\ Spec
  /\ WF_vars(HubStep)
  /\ \A c \in Conns : WF_vars(HandlerStep(c))
  /\ \A s \in Senders : WF_vars(SendRespond(s))

----
TypeOK ==
  /\ pc \in [Conns -> {"idle", "rejected", "reg", "loop", "pinging", "reading",
                       "unreg", "closing", "done"}]
  /\ open \in [Conns -> BOOLEAN]
  /\ tick \in [Conns -> BOOLEAN]
  /\ lag \in [Conns -> Nat]
  /\ clients \subseteq Conns
  /\ hubOp \in {"idle", "register", "unregister", "broadcast"}
  /\ hubArg \in Conns \cup {None}
  /\ hubMsg \in Senders \cup {None}
  /\ todo \subseteq Conns
  /\ hubWriting \in Conns \cup {None}
  /\ mutexHeld \in BOOLEAN
  /\ spc \in [Senders -> {"idle", "blocked", "respond", "done"}]
  /\ req \in [Senders -> Requests]
  /\ resp \in [Senders -> {0, 200, 400}]
  /\ logged \subseteq {"write", "append", "query"}
  /\ qresp \in {0, 200, 400, 500}

----
\* Definitions the properties share

\* The range loop of the broadcast is over and hub.mutex is not yet unlocked.
LoopDone == hubOp = "broadcast" /\ todo = {} /\ hubWriting = None

\* The connections that have received the message being broadcast.
Delivered == {c \in Conns : hubMsg \in Range(recv[c])}

\* The handler of c has left its keepalive loop: a read or a ping failed.
HandlerFailed(c) == pc[c] \in {"unreg", "closing", "done"}

\* Connections taken out of the registry, by unregister or by a failed write.
Removed == unregistered \cup writeFailed

\* Position of message m in the order the hub accepted the messages.
Pos(m) == CHOOSE i \in 1..Len(accepted) : accepted[i] = m

----
\* C1: for every message broadcast, whatever the number of connections and of
\* failed writes, addMessage is called exactly once for that message.
C1_AppendOncePerBroadcast == LoopDone => appendCalls = 1

\* C2: a broadcast over N registered connections of which K fail their write
\* delivers to exactly the other N-K; a failure does not stop the loop; when the
\* loop is over exactly the K failing connections are out of the registry, closed.
C2_FanOutIsolatesFailures ==
  hubOp = "broadcast" =>
    LET visited == snapshot \ todo
    IN /\ todo \subseteq snapshot
       /\ failed \subseteq visited
       /\ Delivered = visited \ failed
       /\ clients = snapshot \ failed
       /\ \A c \in failed : ~open[c]
       /\ LoopDone => visited = snapshot

C2_Witness ==
  /\ LoopDone
  /\ failed # {}
  /\ Delivered # {}
  /\ clients = snapshot \ failed

\* C3 as stated: the registry is exactly the connections registered minus those
\* unregistered.
C3_MembershipIsRegisteredMinusUnregistered == clients = registered \ unregistered

\* C3 amended: the registry is exactly the connections registered minus those
\* unregistered or removed by a failed fan-out write.
C3_MembershipAmended == clients = registered \ (unregistered \cup writeFailed)

C3_Witness ==
  /\ registered = Conns
  /\ \E c \in writeFailed : c \notin unregistered
  /\ \E c \in unregistered : c \notin writeFailed

\* C4: register, unregister and broadcast run one at a time: the hub takes no
\* new request while one is in progress, and while a broadcast loop runs no
\* pending register or unregister is accepted and the registry changes only by
\* the removal of the client whose write just failed.
C4_OpsSerialized ==
  [][ /\ hubOp # "idle" =>
           /\ hubOp' \in {hubOp, "idle"}
           /\ hubOp' = hubOp => (hubArg' = hubArg /\ hubMsg' = hubMsg)
      /\ hubOp = "broadcast" =>
           /\ mutexHeld
           /\ clients' \subseteq clients
           /\ (clients \ clients') \subseteq {hubWriting}
           /\ \A c \in Conns : pc[c] \in {"reg", "unreg"} => pc'[c] = pc[c]
           /\ \A s \in Senders : spc[s] = "blocked" => spc'[s] = "blocked"
    ]_vars

C4_Witness ==
  /\ hubOp = "broadcast"
  /\ hubWriting # None
  /\ \E c \in Conns : pc[c] = "reg"
  /\ \E c \in Conns : pc[c] = "unreg"
  /\ \E s \in Senders : spc[s] = "blocked"

\* C5: no write goes to a connection that was removed from the registry (by
\* unregister or by a failed write); every connection still registered when the
\* broadcast starts is written to, and receives it unless its write fails.
C5_NoWriteAfterRemoval ==
  /\ hubWriting # None =>
       /\ hubWriting \in clients
       /\ hubWriting \notin Removed
  /\ hubOp = "broadcast" =>
       /\ snapshot \cap unregistered = {}
       /\ snapshot \cap (writeFailed \ failed) = {}
       /\ Delivered \cap (Removed \ failed) = {}
  /\ LoopDone => \A c \in snapshot \ failed : hubMsg \in Range(recv[c])

C5_Witness ==
  /\ LoopDone
  /\ \E a \in unregistered \ unregNoop :
       /\ recv[a] # <<>>
       /\ hubMsg \notin Range(recv[a])
  /\ \E b \in snapshot : hubMsg \in Range(recv[b])

\* C6: a broadcast goes to the registry as it is when the hub takes the message;
\* every connection receives its messages in the order the hub took them; a
\* broadcast is left only when its loop is over (loops do not interleave).
C6_OrderState ==
  /\ \A c \in Conns : \A i, j \in 1..Len(recv[c]) :
       /\ recv[c][i] \in Range(accepted)
       /\ i < j => Pos(recv[c][i]) < Pos(recv[c][j])
  /\ hubOp = "broadcast" =>
       /\ hubMsg = accepted[Len(accepted)]
       /\ Delivered \subseteq snapshot

C6_BroadcastOrder ==
  [][ /\ C6_OrderState'
      /\ (hubMsg # None /\ hubMsg' # hubMsg) => LoopDone
      /\ \A c \in Conns : recv'[c] # recv[c] =>
           /\ recv'[c] = Append(recv[c], hubMsg)
           /\ c \in snapshot
    ]_vars

C6_Witness ==
  /\ Len(accepted) = 2
  /\ \E c \in Conns : recv[c] = accepted
  /\ \E c \in Conns : Len(recv[c]) = 1

\* C7 as stated: a connection is in the registry if and only if its transport is
\* open and it has not failed a read, a fan-out write or a heartbeat send.
C7_RegisteredIffOpenAndHealthy ==
  \A c \in Conns :
    c \in clients <=> (open[c] /\ ~HandlerFailed(c) /\ c \notin writeFailed)

\* C7 amended: a connection in the registry has not failed a fan-out write, and
\* its transport is open unless the hub is at that moment processing its
\* unregister; a connection whose register was processed is in the registry as
\* long as its transport is open and no read, fan-out write or ping of it failed.
C7_RegistryVsTransport ==
  \A c \in Conns :
    /\ c \in clients =>
         /\ c \in registered
         /\ c \notin writeFailed
         /\ open[c] \/ (hubOp = "unregister" /\ hubArg = c)
    /\ (c \in registered /\ open[c] /\ ~HandlerFailed(c) /\ c \notin writeFailed)
         => c \in clients

C7_Witness ==
  /\ \E c \in clients : ~open[c]
  /\ \E c \in clients : open[c] /\ HandlerFailed(c)

\* C8: unregister of a connection that is not in the registry changes nothing;
\* unregister of a connection that is in it removes it and closes its transport.
C8_UnregisterIdempotent ==
  [][ (hubOp = "unregister" /\ hubOp' = "idle") =>
        IF hubArg \in clients
          THEN clients' = clients \ {hubArg} /\ ~open'[hubArg]
          ELSE clients' = clients /\ open' = open
    ]_vars

C8_Witness ==
  /\ unregNoop # {}
  /\ unregistered \ unregNoop # {}
  /\ clients = {}

C10_HeartbeatNotStarved ==
  \A c \in Conns : (pc[c] = "reading" /\ tick[c]) ~> (pc[c] = "pinging")

\* C11: when the read of a connection fails in its handler while a broadcast
\* write to it fails in the hub, in every interleaving the connection leaves the
\* registry exactly once; the unregister that comes second and the second Close
\* change nothing; no step removes any other connection; the handler ends with
\* the connection out of the registry and its transport closed.
C11_TerminatesOnce ==
  [][ /\ \A c \in Conns :
           /\ (c \in clients /\ c \notin clients') =>
                /\ c \notin Removed
                /\ c \in Removed'
                /\ clients' = clients \ {c}
           /\ (c \in writeFailed' /\ c \in unregistered') => c \in unregNoop'
           /\ (hubOp = "unregister" /\ hubOp' = "idle" /\ hubArg = c
                 /\ c \in writeFailed) =>
                (clients' = clients /\ open' = open)
           /\ (pc[c] = "closing" /\ pc'[c] = "done" /\ c \in writeFailed) =>
                (open' = open /\ clients' = clients)
           /\ (pc'[c] = "done" /\ c \in writeFailed') =>
                (c \notin clients' /\ ~open'[c])
    ]_vars

\* A fan-out write to the connection failed, its handler left the loop on a
\* failed read, the handler's unregister found the connection gone, and the
\* handler is over; the other connection is still registered and open.
C11_Witness ==
  \E c \in Conns :
    /\ pc[c] = "done"
    /\ c \in writeFailed
    /\ c \in unregNoop
    /\ \E d \in clients : d # c /\ open[d]

\* C12: a connection whose peer has gone silent is out of the registry within
\* the read deadline plus one keepalive interval: once the read deadline has
\* passed (ReadMessage has returned its error and the handler has left the loop)
\* the connection stays in the registry for at most one ticker interval more.
C12_RemovedWithinWindow ==
  \A c \in Conns : (pc[c] = "unreg" /\ c \in clients) => lag[c] <= TickerSecs

\* C13: a send request whose message text is empty is answered 400 in the step
\* it arrives, without going near the hub: it is never handed to hub.broadcast,
\* no connection receives it, and that step leaves the registry, the hub and
\* the messages table as they were.
C13_EmptyRejected ==
  [][ \A s \in Senders :
        /\ (spc[s] = "idle" /\ spc'[s] # "idle" /\ req'[s] = "") =>
             /\ spc'[s] = "done"
             /\ resp'[s] = 400
             /\ UNCHANGED <<hubVars, recv, dbVars, accepted>>
        /\ (spc'[s] # "idle" /\ req'[s] = "") =>
             /\ spc'[s] = "done"
             /\ resp'[s] = 400
             /\ s \notin Range(accepted')
             /\ \A c \in Conns : s \notin Range(recv'[c])
    ]_vars

\* An empty request was rejected while a connection was registered and open.
C13_Witness ==
  \E s \in Senders :
    /\ req[s] = ""
    /\ resp[s] = 400
    /\ \E c \in clients : open[c] /\ recv[c] = <<>>

\* The step in which addMessage is called while the database is down.
AppendFails == appendCalls' = appendCalls + 1 /\ ~dbUp

\* C14: when the addMessage of a broadcast fails, no delivery is undone or
\* repeated, the range loop goes on with the clients it has yet to visit, no
\* client leaves the registry because of it, and the failure is logged.
C14_AppendFailureContained ==
  [][ AppendFails =>
        /\ \A c \in Conns :
             /\ Len(recv'[c]) >= Len(recv[c])
             /\ SubSeq(recv'[c], 1, Len(recv[c])) = recv[c]
             /\ Cardinality({i \in 1..Len(recv'[c]) : recv'[c][i] = hubMsg}) <= 1
        /\ rows' = rows
        /\ hubOp' = "broadcast"
        /\ todo' = todo \ {hubWriting}
        /\ clients \ clients' = failed' \cap {hubWriting}
        /\ "append" \in logged'
    ]_vars

\* A transport error of connection c is met in this step: a fan-out write to it
\* fails in the hub, or its handler's read or ping returns an error.
TransportError(c) ==
  \/ hubWriting = c /\ c \in failed' /\ c \notin failed
  \/ pc[c] \in {"reading", "pinging"} /\ pc'[c] = "unreg"

\* C15: a transport error of one connection touches no other connection and no
\* send caller: in the step of the error every other connection keeps its place
\* in the registry, its transport and its handler, the hub goes on with the
\* case it is in, and no sender's state changes; a connection leaves the
\* registry or is closed only by its own failed write, its own unregister or its
\* own handler; every send request with text is answered 200 whatever became of
\* the fan-out writes.
C15_ErrorsContained ==
  [][ /\ \A c \in Conns : TransportError(c) =>
           /\ \A d \in Conns \ {c} :
                /\ d \in clients => d \in clients'
                /\ open'[d] = open[d]
                /\ pc'[d] = pc[d]
                /\ recv'[d] = recv[d]
           /\ hubOp' = hubOp
           /\ todo \ {c} \subseteq todo'
           /\ UNCHANGED sendVars
      /\ \A d \in Conns :
           /\ (d \in clients /\ d \notin clients') =>
                (hubWriting = d \/ (hubArg = d /\ HandlerFailed(d)))
           /\ (open[d] /\ ~open'[d]) =>
                (hubWriting = d \/ (hubArg = d /\ HandlerFailed(d)) \/ pc[d] = "closing")
      /\ \A s \in Senders :
           (spc'[s] = "done" /\ Valid(req'[s])) => resp'[s] = 200
    ]_vars

\* The write to one connection failed, the other connection is still registered
\* and open, and the sender of that message has its 200.
C15_Witness ==
  /\ LoopDone
  /\ failed # {}
  /\ \E d \in clients : open[d]
  /\ resp[hubMsg] = 200

\* The step in which GET /messages is answered after its query has failed.
QueryFails == qresp = 0 /\ qresp' \notin {0, 400} /\ ~dbUp

\* C16: when the query of GET /messages fails, the failure is logged and the
\* request is answered with a server error (5xx), not with a success.
C16_QueryFailureSurfaced ==
  [][ QueryFails => ("query" \in logged' /\ qresp' >= 500) ]_vars

\* C17: a connection that was taken out of the registry (by its unregister or by
\* a failed write, both of which close its transport) is from then on never in
\* the registry, never open, never written to and never receives a message.
C17_ClosedIsTerminal ==
  [][ \A c \in Removed :
        /\ c \notin clients'
        /\ ~open'[c]
        /\ hubWriting' # c
        /\ c \notin todo'
        /\ recv'[c] = recv[c]
        /\ c \in Removed'
    ]_vars

\* A connection is removed, closed and its handler over, and a broadcast that
\* started without it has been delivered to the other connection.
C17_Witness ==
  \E c \in Removed :
    /\ pc[c] = "done"
    /\ hubOp = "broadcast"
    /\ c \notin snapshot
    /\ \E d \in Conns : hubMsg \in Range(recv[d])

\* C18: once the handler of a registered connection has left its keepalive loop
\* (a ping or a read returned an error) its unregister is taken by the hub and
\* the transport is closed: the handler ends, with the connection out of the
\* registry and closed.
C18_FailureLeadsToRemoval ==
  \A c \in Conns :
    (pc[c] = "unreg") ~> (pc[c] = "done" /\ c \notin clients /\ ~open[c])

\* A handler that left its loop is over, and it was its unregister that took
\* the connection out of the registry.
C18_Witness ==
  \E c \in unregistered \ unregNoop :
    /\ pc[c] = "done"
    /\ c \notin clients
    /\ ~open[c]

\* C19: the addMessage calls made for a broadcast are one per client the range
\* loop has visited, failed writes included, so when the loop is over they are
\* as many as the registry held when the hub took the message; rows are only
\* inserted by those calls, so a message broadcast to an empty registry is
\* never stored.
C19_AppendsEqualRegistrySize ==
  [][ /\ hubOp' = "broadcast" => appendCalls' = Cardinality(snapshot' \ todo')
      /\ hubOp' # "broadcast" => appendCalls' = 0
      /\ LoopDone' => appendCalls' = Cardinality(snapshot')
      /\ (LoopDone' /\ snapshot' = {}) => appendCalls' = 0
      /\ rows' # rows =>
           /\ hubOp = "broadcast"
           /\ hubWriting \in snapshot
           /\ appendCalls' = appendCalls + 1
           /\ rows' = rows + 1
    ]_vars

\* The first message was broadcast to an empty registry and left no row; the
\* second went to both connections, one write failed, and two calls were made.
C19_Witness ==
  /\ LoopDone
  /\ Len(accepted) = 2
  /\ \A c \in Conns : accepted[1] \notin Range(recv[c])
  /\ snapshot = Conns
  /\ failed # {}
  /\ appendCalls = Cardinality(Conns)
  /\ rows = appendCalls

\* No handler is blocked on a channel of the hub, the hub is at its select, and
\* every send request with text that has arrived has its 200.
NothingPending ==
  /\ hubOp = "idle"
  /\ \A c \in Conns : pc[c] \notin {"reg", "unreg"}
  /\ \A s \in Senders :
       /\ spc[s] \in {"idle", "done"}
       /\ (spc[s] = "done" /\ Valid(req[s])) => resp[s] = 200

\* C20: the hub only receives from its channels and every write it makes ends
\* (with the message written or with the deadline error), so it always comes
\* back to its select; hence, under fair scheduling, whatever is blocked on
\* hub.register, hub.unregister or hub.broadcast at some moment has been
\* received from at a later one, and every send request with text gets its
\* 200: again and again nothing is pending.
C20_NoDeadlock == []<>NothingPending

\* Every handler went through register and unregister, every sender was
\* answered 200, and the hub is back at its select.
C20_Witness ==
  /\ hubOp = "idle"
  /\ \A c \in Conns : pc[c] = "done" /\ c \in registered
  /\ \A s \in Senders : spc[s] = "done" /\ resp[s] = 200

\* C21: the handler of a connection hands it to hub.register once, before its
\* loop, and to hub.unregister once, when it returns; the hub has processed the
\* register by the time it receives the unregister; so once the handler is over
\* and the hub has processed its unregister, the connection is out of the
\* registry, and it stays out.
C21_RegisterThenUnregisterOnce ==
  [][ \A c \in Conns :
        /\ (pc'[c] = "reg" /\ pc[c] # "reg") => pc[c] = "idle"
        /\ (pc[c] = "reg" /\ pc'[c] # "reg") =>
             /\ pc'[c] = "loop"
             /\ hubOp' = "register" /\ hubArg' = c
             /\ c \notin registered
        /\ (c \in registered' /\ c \notin registered) =>
             /\ hubOp = "register" /\ hubArg = c
             /\ c \in clients'
             /\ pc[c] \notin {"closing", "done"}
             /\ c \notin unregistered
        /\ (pc'[c] = "unreg" /\ pc[c] # "unreg") =>
             /\ pc[c] \in {"reading", "pinging"}
             /\ c \notin unregistered
        /\ (pc[c] = "unreg" /\ pc'[c] # "unreg") =>
             /\ pc'[c] = "closing"
             /\ hubOp' = "unregister" /\ hubArg' = c
             /\ c \in registered
             /\ c \notin unregistered
        /\ (c \in unregistered' /\ c \notin unregistered) =>
             /\ hubOp = "unregister" /\ hubArg = c
             /\ c \in registered
        /\ pc'[c] = "done" =>
             /\ c \in registered'
             /\ c \in unregistered' \/ (hubOp' = "unregister" /\ hubArg' = c)
        /\ (pc[c] = "done" /\ c \in unregistered) =>
             /\ c \notin clients
             /\ c \notin clients'
             /\ pc'[c] = "done"
    ]_vars

\* A handler is over, the hub has processed its register and then its
\* unregister, which removed the connection, and the hub has since registered
\* the other connection without the first coming back.
C21_Witness ==
  \E c \in unregistered \ unregNoop :
    /\ pc[c] = "done"
    /\ c \in registered
    /\ c \notin clients
    /\ hubOp = "idle"
    /\ \E d \in clients : d # c /\ pc[d] = "reading"

====
